---- MODULE Spec2Model ----
(***************************************************************************)
(* Model of assets/21_kernelsvm/plt/Gender.ipynb: the gender experiment on *)
(* the AR face images.  The notebook is run top to bottom; each statement  *)
(* (or each loop iteration) of its code cells is one action.               *)
(*                                                                         *)
(* Numbers are exact rationals [n, d] with d > 0; the non-finite floats    *)
(* are d = 0: inf = 1/0, -inf = -1/0, nan = 0/0.  Floating-point rounding  *)
(* is not modelled.  Strings are sequences of one-character strings.       *)
(***************************************************************************)
EXTENDS Integers, Sequences, FiniteSets, TLC

\* ---------------------------------------------------------------- bounds
\* D and d stand in for 165*120 and 1000, N for 700.
D == 3
d == 2
N == 2
MaxIds == 2        \* longest train_ids array
MaxTestIds == 1    \* longest test_ids array
MaxViews == 2      \* longest view_ids array
MaxRuns == 2       \* runs of the notebook (process starts)

\* values the ID arrays are drawn from (inside and outside 1..50 / 1..26)
IdPool == {7, 1000}
TestIdPool == {-1, 123}
ViewPool == {3, 14, 100}

\* modulus of the generator that stands for numpy's global RandomState
RngMod == 7

\* a name that is not bound: None for the arrays and lists, Unset for the
\* records, "none" for the strings
None == <<>>
Unset == [unset |-> TRUE]

\* ---------------------------------------------------------------- strings
path == <<".", ".", "/", ".", ".", "/", "d", "a", "t", "a", "/", "A", "R", "/">>

DigitChar == <<"0", "1", "2", "3", "4", "5", "6", "7", "8", "9">>

RECURSIVE StrNat(_)
StrNat(n) == IF n < 10 THEN <<DigitChar[n + 1]>>
             ELSE StrNat(n \div 10) \o <<DigitChar[(n % 10) + 1]>>

\* str(int)
str(n) == IF n < 0 THEN <<"-">> \o StrNat(0 - n) ELSE StrNat(n)

Zeros(k) == [j \in 1..k |-> "0"]

\* str.zfill(width): pads on the left with '0', after a leading sign
zfill_right(s, width) ==
    IF Len(s) >= width THEN s ELSE s \o Zeros(width - Len(s))
zfill(s, width) ==
    IF Len(s) >= width THEN s
    ELSE IF s[1] \in {"-", "+"}
         THEN <<s[1]>> \o Zeros(width - Len(s)) \o Tail(s)
         ELSE Zeros(width - Len(s)) \o s

\* the file name built at lines 63-64
FileName(pre, im_id, v_id) ==
    path \o pre \o zfill(str(im_id), 3) \o <<"-">> \o zfill(str(v_id), 2)
         \o <<".", "b", "m", "p">>

RECURSIVE InnerLoop(_, _, _, _)
InnerLoop(pre, im_id, views, list_fn) ==
    IF views = <<>> THEN list_fn
    ELSE InnerLoop(pre, im_id, Tail(views),
                   Append(list_fn, FileName(pre, im_id, Head(views))))

RECURSIVE OuterLoop(_, _, _, _)
OuterLoop(pre, ids, views, list_fn) ==
    IF ids = <<>> THEN list_fn
    ELSE OuterLoop(pre, Tail(ids), views,
                   InnerLoop(pre, Head(ids), views, list_fn))

build_list_fn(pre, img_ids, views) == OuterLoop(pre, img_ids, views, <<>>)

Pre_M == <<"M", "-">>
Pre_W == <<"W", "-">>

\* ---------------------------------------------------------------- numbers
Abs(x) == IF x < 0 THEN 0 - x ELSE x
Sgn(x) == IF x < 0 THEN 0 - 1 ELSE IF x > 0 THEN 1 ELSE 0

RECURSIVE GCD(_, _)
GCD(a, b) == IF b = 0 THEN a ELSE GCD(b, a % b)

\* the rational n/dd in lowest terms (dd # 0)
Rat(n, dd) ==
    LET g == GCD(Abs(n), Abs(dd))
    IN  [n |-> Sgn(dd) * (n \div g), d |-> Abs(dd) \div g]

NaN == [n |-> 0, d |-> 0]
Inf(s) == [n |-> s, d |-> 0]
Zero == [n |-> 0, d |-> 1]
Finite(a) == a.d # 0

RNeg(a) == [n |-> 0 - a.n, d |-> a.d]

RAdd(a, b) ==
    IF a = NaN \/ b = NaN THEN NaN
    ELSE IF ~Finite(a) /\ ~Finite(b) THEN (IF a.n = b.n THEN a ELSE NaN)
    ELSE IF ~Finite(a) THEN a
    ELSE IF ~Finite(b) THEN b
    ELSE LET g == GCD(a.d, b.d)
             L == (a.d \div g) * b.d
         IN  Rat(a.n * (L \div a.d) + b.n * (L \div b.d), L)

RSub(a, b) == RAdd(a, RNeg(b))

RMul(a, b) ==
    IF a = NaN \/ b = NaN THEN NaN
    ELSE IF ~Finite(a) \/ ~Finite(b)
         THEN (IF a.n = 0 \/ b.n = 0 THEN NaN ELSE Inf(Sgn(a.n) * Sgn(b.n)))
    ELSE LET g1 == GCD(Abs(a.n), b.d)
             g2 == GCD(Abs(b.n), a.d)
         IN  [n |-> (a.n \div g1) * (b.n \div g2),
              d |-> (a.d \div g2) * (b.d \div g1)]

\* float division as numpy does it: x/0 is +-inf or nan, never an error
RDiv_guarded(a, b) ==
    IF a = NaN \/ b = NaN THEN NaN
    ELSE IF ~Finite(a) /\ ~Finite(b) THEN NaN
    ELSE IF ~Finite(b) THEN Zero
    ELSE IF b.n = 0 THEN Zero
    ELSE IF ~Finite(a) THEN Inf(Sgn(a.n) * Sgn(b.n))
    ELSE LET g1 == GCD(Abs(a.n), Abs(b.n))
             g2 == GCD(a.d, b.d)
         IN  [n |-> Sgn(b.n) * (a.n \div g1) * (b.d \div g2),
              d |-> (a.d \div g2) * (Abs(b.n) \div g1)]
RDiv(a, b) ==
    IF a = NaN \/ b = NaN THEN NaN
    ELSE IF ~Finite(a) /\ ~Finite(b) THEN NaN
    ELSE IF ~Finite(b) THEN Zero
    ELSE IF b.n = 0 THEN (IF a.n = 0 THEN NaN ELSE Inf(Sgn(a.n)))
    ELSE IF ~Finite(a) THEN Inf(Sgn(a.n) * Sgn(b.n))
    ELSE LET g1 == GCD(Abs(a.n), Abs(b.n))
             g2 == GCD(a.d, b.d)
         IN  [n |-> Sgn(b.n) * (a.n \div g1) * (b.d \div g2),
              d |-> (a.d \div g2) * (Abs(b.n) \div g1)]

RECURSIVE RSum(_)
RSum(s) == IF s = <<>> THEN Zero ELSE RAdd(Head(s), RSum(Tail(s)))

\* ---------------------------------------------------------------- matrices
\* a matrix is a sequence of rows; zeros((rows, cols))
zeros(rows, cols) == [r \in 1..rows |-> [c \in 1..cols |-> Zero]]

Column(X, j) == [r \in 1..Len(X) |-> X[r][j]]

\* np.dot(X, P)
dot(X, P) ==
    [r \in 1..Len(X) |->
        [j \in 1..Len(P[1]) |->
            RSum([k \in 1..Len(P) |-> RMul(X[r][k], P[k][j])])]]

\* X.mean(axis = 0)
mean(X) ==
    [j \in 1..Len(X[1]) |-> RDiv(RSum(Column(X, j)), Rat(Len(X), 1))]

\* X.var(axis = 0): the mean of the squared deviations from the column mean
var(X) ==
    LET m == mean(X)
        sq(r, j) == RMul(RSub(X[r][j], m[j]), RSub(X[r][j], m[j]))
    IN  [j \in 1..Len(X[1]) |->
            RDiv(RSum([r \in 1..Len(X) |-> sq(r, j)]), Rat(Len(X), 1))]

\* (X - mean)/variance, broadcast over the rows (line 103)
Standardize(X, mu, sigma2) ==
    [r \in 1..Len(X) |->
        [j \in 1..Len(X[r]) |-> RDiv(RSub(X[r][j], mu[j]), sigma2[j])]]

\* ---------------------------------------------------------------- images
\* rgb2gray: Y' = 0.299 R + 0.587 G + 0.114 B (line 70); a 2-D array has
\* no third axis to index
rgb2gray_ok(img) == img.kind = "rgb"
rgb2gray(img) ==
    [p \in 1..Len(img.pix) |->
        RAdd(RAdd(RMul(Rat(img.pix[p][1], 1), Rat(299, 1000)),
                  RMul(Rat(img.pix[p][2], 1), Rat(587, 1000))),
             RMul(Rat(img.pix[p][3], 1), Rat(114, 1000)))]

\* ndarray.reshape keeps the elements in order and needs their number to
\* be that of the new shape (lines 79, 224, 225)
CanReshape(v, n) == Len(v) = n
reshape(v, n) == v

\* the outcome of vectorize_img on what imread returned: the row vector, or
\* the error that is raised
vectorize_img_lenient(file) ==
    IF file.kind = "missing" THEN [err |-> "none", im_vec |-> [p \in 1..D |-> Zero]]
    ELSE IF ~rgb2gray_ok(file) THEN [err |-> "IndexError"]
    ELSE IF ~CanReshape(rgb2gray(file), D) THEN [err |-> "ValueError"]
    ELSE [err |-> "none", im_vec |-> reshape(rgb2gray(file), D)]
vectorize_img(file) ==
    IF file.kind = "missing" THEN [err |-> "IOError"]
    ELSE IF ~rgb2gray_ok(file) THEN [err |-> "IndexError"]
    ELSE IF ~CanReshape(rgb2gray(file), D) THEN [err |-> "ValueError"]
    ELSE [err |-> "none", im_vec |-> reshape(rgb2gray(file), D)]

\* ---------------------------------------------------------------- the files
\* The images on disk are named by the convention of lines 63-64; what a
\* file holds depends on the category, subject and view in its name.
DigitVal(c) == CHOOSE v \in 0..9 : DigitChar[v + 1] = c

RECURSIVE ParseNat(_)
ParseNat(s) == IF s = <<>> THEN 0
               ELSE 10 * ParseNat(SubSeq(s, 1, Len(s) - 1)) + DigitVal(s[Len(s)])

ParseInt(s) == IF s[1] = "-" THEN 0 - ParseNat(Tail(s)) ELSE ParseNat(s)

ParseFileName(fn) ==
    LET body == SubSeq(fn, Len(path) + 3, Len(fn) - 4)
        dash == CHOOSE k \in 2..Len(body) :
                    /\ body[k] = "-"
                    /\ \A m \in (k + 1)..Len(body) : body[m] # "-"
    IN  [pre  |-> SubSeq(fn, Len(path) + 1, Len(path) + 2),
         subj |-> ParseInt(SubSeq(body, 1, dash - 1)),
         view |-> ParseInt(SubSeq(body, dash + 1, Len(body)))]

ImgPatterns == {"flat", "category", "identity"}

Gray(v) == <<v, v, v>>

\* pixel k of the image of (pre, subj, view): the same colour everywhere in
\* every image; or gray images whose first pixel tells the category; or
\* gray images that differ with category, subject and view
Pixel(pattern, pre, subj, view, k) ==
    LET c == IF pre = Pre_M THEN 0 ELSE 1
    IN  CASE pattern = "flat"     -> <<2, 1, 0>>
          [] pattern = "category" -> IF k = 1 THEN Gray(3 * c) ELSE Gray(1)
          [] OTHER                -> Gray((subj + view * k + c) % 3)

GoodImage(pattern, fn) ==
    LET id == ParseFileName(fn)
    IN  [kind |-> "rgb",
         pix  |-> [k \in 1..D |-> Pixel(pattern, id.pre, id.subj, id.view, k)]]

\* what misc.imread(filename) may find (line 75): the image, no file, a
\* 2-D grayscale bitmap, or an image of another size
imread(pattern, fn) ==
    { GoodImage(pattern, fn),
      [kind |-> "missing"],
      [kind |-> "gray", pix |-> [k \in 1..D |-> 1]],
      [kind |-> "rgb",  pix |-> [k \in 1..(D + 1) |-> <<1, 1, 1>>]] }

\* ---------------------------------------------------------------- random
\* np.random.seed / np.random.randn: the draws are a function of the
\* generator state alone, and the seed fixes the state
seed_unset(st, s) == st
seed(st, s) == s % RngMod

NextRng(st) == (3 * st + 1) % RngMod

RECURSIVE Advance(_, _)
Advance(st, k) == IF k = 0 THEN st ELSE Advance(NextRng(st), k - 1)

Sample(st) == Rat((st % 3) - 1, 1)

\* randn(rows, cols), filled in row-major order
randn(st, rows, cols) ==
    [r \in 1..rows |-> [c \in 1..cols |-> Sample(Advance(st, (r - 1) * cols + c))]]

\* ---------------------------------------------------------------- state
VARIABLES
    pc,                \* the statement the run is at
    run,               \* which run of the notebook this is
    rng,               \* state of numpy's global generator
    ProjectionMatrix,
    prevProjection,    \* ProjectionMatrix of the previous run
    train_ids, test_ids, view_ids,
    imgPattern,        \* what the image files hold
    batch,             \* the build_data_matrix call in progress
    X_full, y, list_fn, i,      \* its locals; X_full per call
    X_train_full, y_train, x_mean, x_var, X_train,
    X_test_full, y_test, X_test,
    clf,               \* the estimator last fitted, with the data it was given
    y_pred,
    acc,               \* the accuracy last printed
    A,                 \* the loaded .mat file
    error              \* the exception that ended the run

vars == <<pc, run, rng, ProjectionMatrix, prevProjection, train_ids, test_ids,
          view_ids, imgPattern, batch, X_full, y, list_fn, i, X_train_full,
          y_train, x_mean, x_var, X_train, X_test_full, y_test, X_test, clf,
          y_pred, acc, A, error>>

inputs == <<train_ids, test_ids, view_ids, imgPattern>>
locals == <<batch, X_full, y, list_fn, i>>
train  == <<X_train_full, y_train, X_train>>
stats  == <<x_mean, x_var>>
test   == <<X_test_full, y_test, X_test>>
model  == <<clf, y_pred, acc>>

SeqsUpTo(S, n) == UNION { [1..k -> S] : k \in 1..n }

NoFrame == [b \in {"train", "test"} |-> None]

\* the frame of call b is left: its local X_full is no longer referenced
Release_kept(frames, b) == frames
Release(frames, b) == [frames EXCEPT ![b] = None]

Fresh ==
    /\ pc = "seed"
    /\ rng \in 0..(RngMod - 1)
    /\ ProjectionMatrix = None
    /\ batch = "none" /\ X_full = NoFrame /\ y = None /\ list_fn = None /\ i = 0
    /\ X_train_full = None /\ y_train = None /\ x_mean = None /\ x_var = None
    /\ X_train = None /\ X_test_full = None /\ y_test = None /\ X_test = None
    /\ clf = Unset /\ y_pred = None /\ acc = Unset /\ A = Unset /\ error = Unset

Init ==
    /\ Fresh
    /\ run = 1
    /\ prevProjection = None
    /\ train_ids \in SeqsUpTo(IdPool, MaxIds)
    /\ test_ids \in SeqsUpTo(TestIdPool, MaxTestIds)
    /\ view_ids \in { v \in SeqsUpTo(ViewPool, MaxViews) :
                        \A a, b \in 1..Len(v) : a # b => v[a] # v[b] }
    /\ imgPattern \in ImgPatterns

\* ---------------------------------------------------------------- cell 1
\* an exception nobody catches: the run stops at statement `at` (reading
\* `file`, when it is the loader that failed)
Abort(err, at, file) ==
    /\ pc' = "aborted"
    /\ error' = [err |-> err, at |-> at, file |-> file]

\* np.random.seed(1)
Seed ==
    /\ pc = "seed"
    /\ rng' = seed(rng, 1)
    /\ pc' = "draw"
    /\ UNCHANGED <<run, ProjectionMatrix, prevProjection, inputs, locals, train,
                   stats, test, model, A, error>>

\* ProjectionMatrix = np.random.randn(D, d)
DrawProjection ==
    /\ pc = "draw"
    /\ ProjectionMatrix' = randn(rng, D, d)
    /\ rng' = Advance(rng, D * d)
    /\ pc' = "call_train"
    /\ UNCHANGED <<run, prevProjection, inputs, locals, train, stats, test,
                   model, A, error>>

hstack_swapped(a, b) == b \o a
hstack(a, b) == a \o b
Const(n, v) == [k \in 1..n |-> v]

\* build_data_matrix, lines 83-90: allocate, label, enumerate
BuildBegin(b, img_ids, here) ==
    /\ pc = here
    /\ LET total_imgs == Len(img_ids) * Len(view_ids) * 2
           list_fn_m == build_list_fn(Pre_M, img_ids, view_ids)
           list_fn_w == build_list_fn(Pre_W, img_ids, view_ids)
       IN  /\ X_full' = [X_full EXCEPT ![b] = zeros(total_imgs, D)]
           /\ y' = hstack(Const(total_imgs \div 2, 0), Const(total_imgs \div 2, 1))
           /\ list_fn' = list_fn_m \o list_fn_w
    /\ batch' = b
    /\ i' = 0
    /\ pc' = "load"
    /\ UNCHANGED <<run, rng, ProjectionMatrix, prevProjection, inputs, train,
                   stats, test, model, A, error>>

BuildTrain == BuildBegin("train", train_ids, "call_train")
BuildTest  == BuildBegin("test", test_ids, "call_test")

\* one iteration of the loop of lines 92-93; an exception leaves the call
LoadImage ==
    /\ pc = "load"
    /\ i < Len(list_fn)
    /\ \E file \in imread(imgPattern, list_fn[i + 1]) :
         LET r == vectorize_img(file)
         IN  IF r.err # "none"
             THEN /\ Abort(r.err, "load", list_fn[i + 1])
                  /\ X_full' = Release(X_full, batch)
                  /\ batch' = "none" /\ y' = None /\ list_fn' = None /\ i' = 0
             ELSE /\ X_full' = [X_full EXCEPT ![batch][i + 1] = r.im_vec]
                  /\ i' = i + 1
                  /\ UNCHANGED <<pc, error, batch, y, list_fn>>
    /\ UNCHANGED <<run, rng, ProjectionMatrix, prevProjection, inputs, train,
                   stats, test, model, A>>

\* lines 95-96 and the assignment of the pair at the call (98 or 108); the
\* locals, X_full among them, go with the frame
BuildReturn ==
    /\ pc = "load"
    /\ i = Len(list_fn)
    /\ LET X == dot(X_full[batch], ProjectionMatrix)
       IN  IF batch = "train"
           THEN /\ X_train_full' = X /\ y_train' = y
                /\ pc' = "mean"
                /\ UNCHANGED <<X_train, test>>
           ELSE /\ X_test_full' = X /\ y_test' = y
                /\ pc' = "fe_test"
                /\ UNCHANGED <<X_test, train>>
    /\ X_full' = Release(X_full, batch)
    /\ batch' = "none" /\ y' = None /\ list_fn' = None /\ i' = 0
    /\ UNCHANGED <<run, rng, ProjectionMatrix, prevProjection, inputs, stats,
                   model, A, error>>

\* x_mean = X_train_full.mean(axis = 0)
ComputeMean ==
    /\ pc = "mean"
    /\ x_mean' = mean(X_train_full)
    /\ pc' = "var"
    /\ UNCHANGED <<run, rng, ProjectionMatrix, prevProjection, inputs, locals,
                   train, x_var, test, model, A, error>>

\* x_var = X_train_full.var(axis = 0)
ComputeVar ==
    /\ pc = "var"
    /\ x_var' = var(X_train_full)
    /\ pc' = "fe_train"
    /\ UNCHANGED <<run, rng, ProjectionMatrix, prevProjection, inputs, locals,
                   train, x_mean, test, model, A, error>>

\* feature_extraction reads the globals x_mean and x_var when it is called
feature_extraction_nocenter(X) ==
    Standardize(X, [j \in 1..Len(x_mean) |-> Zero], x_var)
feature_extraction_own(X) == Standardize(X, mean(X), var(X))
feature_extraction(X) == Standardize(X, x_mean, x_var)

\* X_train = feature_extraction(X_train_full)
ExtractTrain ==
    /\ pc = "fe_train"
    /\ X_train' = feature_extraction(X_train_full)
    /\ pc' = "free_train"
    /\ UNCHANGED <<run, rng, ProjectionMatrix, prevProjection, inputs, locals,
                   X_train_full, y_train, stats, test, model, A, error>>

\* X_train_full = None
FreeTrain ==
    /\ pc = "free_train"
    /\ X_train_full' = None
    /\ pc' = "call_test"
    /\ UNCHANGED <<run, rng, ProjectionMatrix, prevProjection, inputs, locals,
                   y_train, X_train, stats, test, model, A, error>>

\* X_test = feature_extraction(X_test_full)
ExtractTest_refit ==
    /\ pc = "fe_test"
    /\ x_mean' = mean(X_test_full)
    /\ x_var' = var(X_test_full)
    /\ X_test' = Standardize(X_test_full, mean(X_test_full), var(X_test_full))
    /\ pc' = "free_test"
    /\ UNCHANGED <<run, rng, ProjectionMatrix, prevProjection, inputs, locals,
                   train, X_test_full, y_test, model, A, error>>
ExtractTest ==
    /\ pc = "fe_test"
    /\ X_test' = feature_extraction(X_test_full)
    /\ pc' = "free_test"
    /\ UNCHANGED <<run, rng, ProjectionMatrix, prevProjection, inputs, locals,
                   train, stats, X_test_full, y_test, model, A, error>>

\* X_test_full = None
FreeTest ==
    /\ pc = "free_test"
    /\ X_test_full' = None
    /\ pc' = "fit_logreg"
    /\ UNCHANGED <<run, rng, ProjectionMatrix, prevProjection, inputs, locals,
                   train, stats, y_test, X_test, model, A, error>>

\* ---------------------------------------------------------------- estimators
AllFinite(X) == \A r \in 1..Len(X) : \A j \in 1..Len(X[r]) : Finite(X[r][j])

Classes(labels) == { labels[k] : k \in 1..Len(labels) }

\* estimator.fit(X_train, y_train) of scikit-learn.  It raises ValueError
\* when X and y differ in length.  Its input validation may also reject a
\* matrix holding nan or inf; the notebook does not decide whether it does,
\* so both outcomes are kept.
Fit(here, kind, next) ==
    /\ pc = here
    /\ \/ /\ Len(X_train) = Len(y_train)
          /\ clf' = [kind |-> kind, X |-> X_train, y |-> y_train]
          /\ pc' = next
          /\ UNCHANGED error
       \/ /\ Len(X_train) # Len(y_train) \/ ~AllFinite(X_train)
          /\ Abort("ValueError", here, <<>>)
          /\ UNCHANGED clf
    /\ UNCHANGED <<run, rng, ProjectionMatrix, prevProjection, inputs, locals,
                   train, stats, test, y_pred, acc, A>>

\* label vectors an estimator may answer with for n rows: constant, split
\* at the middle, or alternating, over the classes seen in fit
PredictOutcomes(n, classes) ==
    { [k \in 1..n |-> IF k <= n \div 2 THEN a ELSE b] : a, b \in classes }
    \cup { [k \in 1..n |-> IF k % 2 = 1 THEN a ELSE b] : a, b \in classes }

\* y_pred = estimator.predict(X_test): one of the classes seen in fit for
\* every row, whatever the estimator learnt
Predict(here, next) ==
    /\ pc = here
    /\ \/ /\ y_pred' \in PredictOutcomes(Len(X_test), Classes(clf.y))
          /\ pc' = next
          /\ UNCHANGED error
       \/ /\ ~AllFinite(X_test)
          /\ Abort("ValueError", here, <<>>)
          /\ UNCHANGED y_pred
    /\ UNCHANGED <<run, rng, ProjectionMatrix, prevProjection, inputs, locals,
                   train, stats, test, clf, acc, A>>

\* sklearn.metrics.accuracy_score: the fraction of positions that agree
Correct(y_true, pred) == Cardinality({ k \in 1..Len(pred) : y_true[k] = pred[k] })
accuracy_score_count(y_true, pred) == Rat(Correct(y_true, pred), 1)
accuracy_score(y_true, pred) == Rat(Correct(y_true, pred), Len(pred))

\* print("Accuracy: %.2f %%" %(100*accuracy_score(y_test, y_pred)))
Report(here, next) ==
    /\ pc = here
    /\ IF Len(y_test) = Len(y_pred)
       THEN /\ acc' = RMul(Rat(100, 1), accuracy_score(y_test, y_pred))
            /\ pc' = next
            /\ UNCHANGED error
       ELSE /\ Abort("ValueError", here, <<>>)
            /\ UNCHANGED acc
    /\ UNCHANGED <<run, rng, ProjectionMatrix, prevProjection, inputs, locals,
                   train, stats, test, clf, y_pred, A>>

FitLogreg     == Fit("fit_logreg", "logreg", "predict_logreg")
PredictLogreg == Predict("predict_logreg", "report_logreg")
ReportLogreg  == Report("report_logreg", "fit_svm")

\* cell 2: svm.SVC(kernel='poly', gamma=5, coef0 = 1, degree = 2)
FitSvm     == Fit("fit_svm", "svc_poly2", "predict_svm")
PredictSvm == Predict("predict_svm", "report_svm")
ReportSvm  == Report("report_svm", "loadmat_3")

\* ---------------------------------------------------------------- the .mat file
Alt(n) == [k \in 1..n |-> k % 2]

\* features x samples, as stored
MatFile(ltr, lte, nte) ==
    [Y_train     |-> <<[k \in 1..Len(ltr) |-> Rat(ltr[k], 1)]>>,
     Y_test      |-> <<[k \in 1..nte |-> Rat(k % 2, 1)]>>,
     label_train |-> ltr,
     label_test  |-> lte]

MatFiles ==
    { MatFile(Alt(N), Alt(N), N),
      MatFile(Alt(N + 1), Alt(N), N),
      MatFile(Alt(N), Alt(N + 1), N),
      MatFile(Alt(N), Alt(N), N + 1) }

Transpose(M) == [c \in 1..Len(M[1]) |-> [r \in 1..Len(M) |-> M[r][c]]]

\* A = sio.loadmat(...): cells 3 and 5
LoadMat(here, next) ==
    /\ pc = here
    /\ \/ /\ A' \in MatFiles
          /\ pc' = next
          /\ UNCHANGED error
       \/ /\ Abort("IOError", here, <<>>)
          /\ UNCHANGED A
    /\ UNCHANGED <<run, rng, ProjectionMatrix, prevProjection, inputs, locals,
                   train, stats, test, model>>

LoadMat3 == LoadMat("loadmat_3", "keys")
LoadMat5 == LoadMat("loadmat_5", "assign_mat")

\* cell 4: for key in A: print key
PrintKeys ==
    /\ pc = "keys"
    /\ pc' = "loadmat_5"
    /\ UNCHANGED <<run, rng, ProjectionMatrix, prevProjection, inputs, locals,
                   train, stats, test, model, A, error>>

\* X_train = A['Y_train'].T ; X_test = A['Y_test'].T
AssignMat ==
    /\ pc = "assign_mat"
    /\ X_train' = Transpose(A.Y_train)
    /\ X_test' = Transpose(A.Y_test)
    /\ pc' = "reshape_train"
    /\ UNCHANGED <<run, rng, ProjectionMatrix, prevProjection, inputs, locals,
                   X_train_full, y_train, stats, X_test_full, y_test, model, A,
                   error>>

\* y_train = A['label_train'].reshape(N)
ReshapeTrain ==
    /\ pc = "reshape_train"
    /\ IF CanReshape(A.label_train, N)
       THEN /\ y_train' = reshape(A.label_train, N)
            /\ pc' = "reshape_test"
            /\ UNCHANGED error
       ELSE /\ Abort("ValueError", "reshape_train", <<>>)
            /\ UNCHANGED y_train
    /\ UNCHANGED <<run, rng, ProjectionMatrix, prevProjection, inputs, locals,
                   X_train_full, X_train, stats, test, model, A>>

\* y_test = A['label_test'].reshape(N)
ReshapeTest ==
    /\ pc = "reshape_test"
    /\ IF CanReshape(A.label_test, N)
       THEN /\ y_test' = reshape(A.label_test, N)
            /\ pc' = "fit_mat"
            /\ UNCHANGED error
       ELSE /\ Abort("ValueError", "reshape_test", <<>>)
            /\ UNCHANGED y_test
    /\ UNCHANGED <<run, rng, ProjectionMatrix, prevProjection, inputs, locals,
                   train, stats, X_test_full, X_test, model, A>>

\* cell 5: svm.SVC(kernel='poly', degree = 3, gamma=1, C = 100)
FitMat     == Fit("fit_mat", "svc_poly3", "predict_mat")
PredictMat == Predict("predict_mat", "report_mat")
ReportMat  == Report("report_mat", "fit_logreg_2")

\* cell 6: logistic regression on the same features
FitLogreg2     == Fit("fit_logreg_2", "logreg", "predict_logreg_2")
PredictLogreg2 == Predict("predict_logreg_2", "report_logreg_2")
ReportLogreg2  == Report("report_logreg_2", "done")

\* ---------------------------------------------------------------- runs
\* The notebook is run again in a new process: nothing survives but the
\* files, and the generator starts from fresh entropy.
Restart ==
    /\ pc \in {"done", "aborted"}
    /\ run < MaxRuns
    /\ run' = run + 1
    /\ prevProjection' = ProjectionMatrix
    /\ pc' = "seed"
    /\ rng' \in 0..(RngMod - 1)
    /\ ProjectionMatrix' = None
    /\ batch' = "none" /\ X_full' = NoFrame /\ y' = None /\ list_fn' = None
    /\ i' = 0
    /\ X_train_full' = None /\ y_train' = None /\ x_mean' = None
    /\ x_var' = None /\ X_train' = None /\ X_test_full' = None
    /\ y_test' = None /\ X_test' = None
    /\ clf' = Unset /\ y_pred' = None /\ acc' = Unset /\ A' = Unset
    /\ error' = Unset
    /\ UNCHANGED inputs

Next ==
    \/ Seed \/ DrawProjection
    \/ BuildTrain \/ BuildTest \/ LoadImage \/ BuildReturn
    \/ ComputeMean \/ ComputeVar
    \/ ExtractTrain \/ FreeTrain \/ ExtractTest \/ FreeTest
    \/ FitLogreg \/ PredictLogreg \/ ReportLogreg
    \/ FitSvm \/ PredictSvm \/ ReportSvm
    \/ LoadMat3 \/ PrintKeys \/ LoadMat5
    \/ AssignMat \/ ReshapeTrain \/ ReshapeTest
    \/ FitMat \/ PredictMat \/ ReportMat
    \/ FitLogreg2 \/ PredictLogreg2 \/ ReportLogreg2
    \/ Restart

Spec == Init /\ [][Next]_vars

\* ---------------------------------------------------------------- properties
\* the IDs of the build_data_matrix call in progress
CallIds == IF batch = "train" THEN train_ids ELSE test_ids

IsDigits(f) == \A k \in 1..Len(f) : \E v \in 0..9 : f[k] = DigitChar[v + 1]

RECURSIVE NumDigits(_)
NumDigits(n) == IF n < 10 THEN 1 ELSE 1 + NumDigits(n \div 10)

Max(a, b) == IF a >= b THEN a ELSE b

\* f is the decimal numeral of n, filled with zeros to w characters
IsPadded(f, n, w) ==
    IF n >= 0
    THEN /\ IsDigits(f)
         /\ ParseNat(f) = n
         /\ Len(f) = Max(w, NumDigits(n))
    ELSE /\ f[1] = "-"
         /\ IsDigits(Tail(f))
         /\ ParseNat(Tail(f)) = 0 - n
         /\ Len(f) = Max(w, 1 + NumDigits(0 - n))

\* fn is path + pre + subject (3 digits) + '-' + view (2 digits) + '.bmp'
HasForm(fn, pre, subj, view) ==
    LET a == Len(path)
        body == SubSeq(fn, a + 3, Len(fn) - 4)
    IN  /\ SubSeq(fn, 1, a) = path
        /\ SubSeq(fn, a + 1, a + 2) = pre
        /\ SubSeq(fn, Len(fn) - 3, Len(fn)) = <<".", "b", "m", "p">>
        /\ \E dash \in 2..(Len(body) - 1) :
              /\ body[dash] = "-"
              /\ IsPadded(SubSeq(body, 1, dash - 1), subj, 3)
              /\ IsPadded(SubSeq(body, dash + 1, Len(body)), view, 2)

\* C7: build_list_fn returns |img_ids|*|view_ids| paths in subject-major
\* order, position k naming subject img_ids[k div |view_ids|] and view
\* view_ids[k mod |view_ids|] in the zero-padded form, for IDs inside and
\* outside the expected range alike.  (list_fn holds the 'M-' list followed
\* by the 'W-' list.)
C7_PathList ==
    pc = "load" =>
        LET nv == Len(view_ids)
            n  == Len(CallIds) * nv
        IN  /\ Len(list_fn) = 2 * n
            /\ \A k \in 0..(n - 1) :
                 LET subj == CallIds[(k \div nv) + 1]
                     view == view_ids[(k % nv) + 1]
                 IN  /\ HasForm(list_fn[k + 1], Pre_M, subj, view)
                     /\ HasForm(list_fn[n + k + 1], Pre_W, subj, view)

C7_Witness ==
    /\ pc = "load" /\ batch = "train"
    /\ train_ids = <<1000, 7>> /\ view_ids = <<100, 3>>
    /\ Len(list_fn) = 8

\* the enumerated list of a batch: all 'M-' paths, then all 'W-' paths
Paths(ids) ==
    build_list_fn(Pre_M, ids, view_ids) \o build_list_fn(Pre_W, ids, view_ids)

ClassOf(fn) == IF ParseFileName(fn).pre = Pre_M THEN 0 ELSE 1

\* the full-resolution row of the image stored under fn
ImageRow(fn) == vectorize_img(GoodImage(imgPattern, fn)).im_vec

\* a vector and a matrix written out element by element
Vec(v) == v \o <<>>
Mat(M) == [r \in 1..Len(M) |-> Vec(M[r])] \o <<>>

\* its projection
ProjectedRow(fn) ==
    LET row == Vec(ImageRow(fn))
    IN  Vec(dot(<<row>>, ProjectionMatrix)[1])

Aligned(X, labels, ids) ==
    LET P == Paths(ids)
    IN  /\ Len(P) = 2 * Len(ids) * Len(view_ids)
        /\ Len(X) = Len(P)
        /\ Len(labels) = Len(P)
        /\ \A k \in 1..Len(P) :
              /\ X[k] = ProjectedRow(P[k])
              /\ labels[k] = ClassOf(P[k])

\* C1: row i of the (X, y) that build_data_matrix returns is the projection
\* of the image at position i of the enumerated list, y[i] is the class of
\* that path's prefix, and X, y and the list have length
\* 2*|img_ids|*|view_ids|.
C1_RowAlignment ==
    /\ X_train_full # None => Aligned(X_train_full, y_train, train_ids)
    /\ X_test_full # None => Aligned(X_test_full, y_test, test_ids)

C1_Witness ==
    /\ X_train_full # None
    /\ imgPattern = "identity"
    /\ Len(train_ids) = 2 /\ Len(view_ids) = 2
    /\ Cardinality({ X_train_full[k] : k \in 1..Len(X_train_full) }) > 2

\* the projected sample matrix of a batch, from the files
Projected(ids) ==
    LET P == Paths(ids)
    IN  Mat([k \in 1..Len(P) |-> ProjectedRow(P[k])])

\* C2: x_mean and x_var are computed once, as the per-feature mean and
\* variance of the projected training matrix, before anything is
\* standardized; the training matrix and then the test matrix are
\* standardized as (x - mean)/variance with these training values.
C2_TrainingStatistics ==
    /\ pc = "var" =>
          /\ x_mean = mean(X_train_full)
          /\ x_var = None /\ X_train = None /\ X_test = None
    /\ pc = "fe_train" =>
          /\ x_mean = mean(X_train_full)
          /\ x_var = var(X_train_full)
          /\ X_train = None /\ X_test = None
    /\ pc = "free_train" =>
          /\ x_mean = mean(X_train_full)
          /\ x_var = var(X_train_full)
          /\ X_train = Standardize(X_train_full, x_mean, x_var)
          /\ X_test = None
    /\ pc = "free_test" =>
          LET XTrain == Projected(train_ids)
          IN  /\ x_mean = Vec(mean(XTrain))
              /\ x_var = Vec(var(XTrain))
              /\ X_train = Standardize(XTrain, x_mean, x_var)
              /\ X_test = Standardize(X_test_full, x_mean, x_var)

\* the test batch has other statistics than the training batch
C2_Witness ==
    /\ pc = "free_test"
    /\ AllFinite(X_test)
    /\ mean(X_test_full) # x_mean
    /\ var(X_test_full) # x_var

\* C3: every accuracy that is printed lies between 0 and 100.
C3_AccuracyRange ==
    acc # Unset => /\ Finite(acc)
                   /\ 0 <= acc.n
                   /\ acc.n <= 100 * acc.d

\* the last report of the notebook, on a prediction that is half right
C3_Witness ==
    /\ pc = "done"
    /\ acc = Rat(50, 1)
    /\ Correct(y_test, y_pred) = 1

One == [n |-> 1, d |-> 1]

\* C4 as stated: transforming the transformed matrix again with the same
\* x_mean and x_var gives the transformed matrix.
C4_Idempotent ==
    pc = "free_train" => feature_extraction(X_train) = X_train

\* C4, amended: with the same stored statistics a second application gives
\* ((x - mean)/var - mean)/var, which in a column of finite non-zero
\* variance equals the once-transformed entry exactly where
\* (x - mean)(1 - var) = mean * var.
C4_Reapplication ==
    pc = "free_train" =>
        \A r \in 1..Len(X_train) : \A j \in 1..Len(X_train[r]) :
            LET x == X_train_full[r][j]
                m == x_mean[j]
                v == x_var[j]
            IN  v # Zero =>
                  /\ Finite(X_train[r][j])
                  /\ (feature_extraction(X_train)[r][j] = X_train[r][j])
                       <=> (RMul(RSub(x, m), RSub(One, v)) = RMul(m, v))

\* an entry that the second application changes
C4_Witness ==
    /\ pc = "free_train"
    /\ \E r \in 1..Len(X_train) : \E j \in 1..Len(X_train[r]) :
          /\ x_var[j] # Zero
          /\ x_mean[j] # Zero
          /\ feature_extraction(X_train)[r][j] # X_train[r][j]

PipelineFits == {"fit_logreg", "predict_logreg", "fit_svm", "predict_svm"}

ZeroVariance(j) == x_var # None /\ x_var[j] = Zero

\* a zero-variance column is non-finite after the scaling and is handed to
\* the estimator as it is
NonFiniteReachesFit ==
    \A j \in 1..d :
        ZeroVariance(j) =>
          /\ pc \in {"free_train", "fit_logreg"} =>
                \A r \in 1..Len(X_train) : ~Finite(X_train[r][j])
          /\ pc \in {"free_test", "fit_logreg"} =>
                \A r \in 1..Len(X_test) : ~Finite(X_test[r][j])
          /\ pc = "fit_logreg" =>
                X_train = Standardize(Projected(train_ids), x_mean, x_var)
          /\ pc = "predict_logreg" =>
                /\ clf.X = X_train
                /\ \A r \in 1..Len(clf.X) : ~Finite(clf.X[r][j])

\* C5 as stated: with a zero-variance training column the scaling yields a
\* non-finite value that reaches the classifier unchanged, and the run does
\* not crash over it.
C5_NoCrash ==
    /\ NonFiniteReachesFit
    /\ \A j \in 1..d :
          (ZeroVariance(j) /\ pc = "aborted") => error.at \notin PipelineFits

\* C5, amended: with a zero-variance training column the scaling itself
\* does not raise, yields a non-finite value in that column and hands it to
\* fit unchanged; the run may then stop in the estimator, whose input
\* validation is free to reject the matrix.
C5_ZeroVariance ==
    /\ NonFiniteReachesFit
    /\ \A j \in 1..d :
          (ZeroVariance(j) /\ pc = "aborted") =>
              error.at \notin {"mean", "var", "fe_train", "free_train",
                               "fe_test", "free_test"}

C5_Witness ==
    /\ pc = "predict_logreg"
    /\ \E j \in 1..d : ZeroVariance(j) /\ ~Finite(clf.X[1][j])

Range(f) == { f[k] : k \in 1..Len(f) }

\* nothing of the failed batch, and nothing of a later stage, exists
NothingAfterFailure ==
    (pc = "aborted" /\ error.at = "load") =>
        /\ batch = "none" /\ X_full = NoFrame
        /\ X_test_full = None /\ y_test = None /\ X_test = None
        /\ clf = Unset /\ y_pred = None /\ acc = Unset /\ A = Unset
        /\ error.file \in Range(Paths(train_ids)) =>
              /\ X_train_full = None /\ y_train = None /\ X_train = None
              /\ x_mean = None /\ x_var = None

\* the loop goes on only over a file that loaded, stops at the one that
\* did not, and nothing runs after the stop but a new run
LoadStep ==
    /\ (pc = "load" /\ pc' = "load") =>
          /\ i' = i + 1
          /\ X_full'[batch][i'] = ImageRow(list_fn[i'])
    /\ (pc = "load" /\ pc' = "aborted") =>
          /\ error'.at = "load"
          /\ error'.file = list_fn[i + 1]
    /\ pc = "aborted" => pc' = "seed" /\ run' = run + 1

\* C6: a path that cannot be loaded (no file, or not D pixels) ends
\* build_data_matrix at that path with the error; no (X, y) comes back and
\* no later stage runs.
C6_FailFast == [](NothingAfterFailure) /\ [][LoadStep]_vars

C6_Witness ==
    /\ pc = "aborted" /\ error.at = "load" /\ error.err = "ValueError"
    /\ Len(test_ids) = 1 /\ Len(view_ids) = 2
    /\ error.file = Paths(test_ids)[3]
    /\ y_train # None /\ X_train # None

\* C8: the full-resolution matrix of a batch is gone once the batch is
\* projected, before the next batch is loaded: the training one and the test
\* one are never both there.
C8_PeakMemory ==
    /\ ~(X_full["train"] # None /\ X_full["test"] # None)
    /\ pc # "load" => X_full = NoFrame
    /\ batch = "test" => X_full["train"] = None

C8_Witness ==
    /\ pc = "load" /\ batch = "test" /\ i = Len(list_fn)
    /\ Len(X_full["test"]) = 4 /\ Len(X_full["test"][1]) = D
    /\ X_train # None

\* C9: two runs with the same seed draw the same D x d projection matrix.
C9_SeedReproducible ==
    ProjectionMatrix # None =>
        /\ Len(ProjectionMatrix) = D
        /\ \A r \in 1..D : Len(ProjectionMatrix[r]) = d
        /\ prevProjection # None => ProjectionMatrix = prevProjection

C9_Witness ==
    /\ run = 2 /\ pc = "call_train"
    /\ ProjectionMatrix = prevProjection
    /\ \E r \in 1..D : \E c \in 1..d : ProjectionMatrix[r][c] # Zero

Kept(v, w) == v # None => w = v

\* C10 as stated: within a run the projection matrix, the statistics, the
\* sample matrices and the label vectors do not change once they exist.
C10_NoMutation ==
    [][run' = run =>
          /\ Kept(ProjectionMatrix, ProjectionMatrix')
          /\ Kept(x_mean, x_mean') /\ Kept(x_var, x_var')
          /\ Kept(X_train, X_train') /\ Kept(y_train, y_train')
          /\ Kept(X_test, X_test') /\ Kept(y_test, y_test')]_vars

\* C10, amended: within a run the projection matrix and the statistics do
\* not change once they exist; X_train_full and X_test_full are only
\* released; X_train, X_test, y_train and y_test keep their values until
\* the cell of lines 219-225 rebinds them to the contents of the .mat file.
C10_CreatedOnce ==
    [][run' = run =>
          /\ Kept(ProjectionMatrix, ProjectionMatrix')
          /\ Kept(x_mean, x_mean') /\ Kept(x_var, x_var')
          /\ X_train_full' \in {X_train_full, None} \/ X_train_full = None
          /\ X_test_full' \in {X_test_full, None} \/ X_test_full = None
          /\ pc # "assign_mat" =>
                Kept(X_train, X_train') /\ Kept(X_test, X_test')
          /\ pc # "reshape_train" => Kept(y_train, y_train')
          /\ pc # "reshape_test" => Kept(y_test, y_test')]_vars

C10_Witness ==
    /\ pc = "done"
    /\ X_train = Transpose(A.Y_train) /\ y_train = A.label_train
    /\ X_test = Transpose(A.Y_test) /\ y_test = A.label_test
    /\ x_mean # None /\ ProjectionMatrix # None

====
